---- MODULE Spec2Model ----
(***************************************************************************)
(* Job orchestration core of the Flask video downloader (src/app.py) with  *)
(* the part of VideoDownloader (src/video_downloader.py) it drives.        *)
(*                                                                         *)
(* Flask runs with threaded=True: every request is served by its own       *)
(* thread.  A thread of the model serves one request at a time and moves   *)
(* one statement of the handler per step, so that every interleaving of    *)
(* the statements of concurrent requests is explored.  The registry        *)
(* active_downloads is read without download_lock by several handlers, so  *)
(* the states between two statements of a locked block are observable.     *)
(* Entering `with download_lock:` is taken together with the first         *)
(* statement of the block, leaving it with the last.                       *)
(*                                                                         *)
(* Time: datetime.now() returns `clock`, which advances when a record is   *)
(* stored, so that records have distinct created_at values and every other *)
(* timestamp of a record is at or after its created_at.                    *)
(*                                                                         *)
(* Spec has the clients submit, query, cancel, delete and retrieve files;  *)
(* ListSpec has them submit, delete and list; SweepSpec is the cleanup     *)
(* thread of DownloadManager alone, on a tree of files with modification   *)
(* times counted in hours; FairSpec adds the scheduling of the request     *)
(* threads to Spec.                                                        *)
(***************************************************************************)
EXTENDS Integers, Sequences, FiniteSets, TLC

(* ---------------------------------------------------------------- bounds *)

\* Request threads serving requests at the same time.
NumThreads == 2

\* Download ids handed out (uuid4 values) in one behaviour.
MaxJobs == 2

\* The largest `limit` query parameter of GET /api/downloads.
MaxLimit == 1

\* The hour at which the cleanup thread starts.
Now0 == 25

\* Cleanup cycles in one behaviour.
MaxCycles == 2

\* The number of files in a download directory the filter is applied to.
MaxFiles == 3

(* ------------------------------------------------------------- constants *)

\* app.config['CLEANUP_INTERVAL_HOURS'], its default.
CLEANUP_INTERVAL_HOURS == 24

\* time.sleep(3600), in hours.
SleepHours == 1

\* app.config['MAX_CONCURRENT_DOWNLOADS'], read from the environment
\* (int(os.environ.get('MAX_CONCURRENT_DOWNLOADS', '3'))): configured to 1,
\* so that NumThreads concurrent requests reach the cap.
MAX_CONCURRENT_DOWNLOADS == 1

Threads == 1 .. NumThreads

JobIds == 1 .. MaxJobs

\* No download id (a thread that serves no request).
NoId == 0

\* The holder of download_lock when nobody holds it.
Unlocked == 0

ActiveStates == {"queued", "downloading"}

TerminalStates == {"completed", "failed", "cancelled"}

\* Request bodies of POST /api/download: with or without 'url'.
Requests == [has_url : BOOLEAN, url : {"https://host/v"}]

\* What request.args.get returns for a query parameter that is not given.
None == "None"

\* Query strings of GET /api/downloads: `status` absent or a status name,
\* `limit` absent (or not an integer) or an integer.
ListArgs ==
    [status : {None, "queued", "completed"},
     has_limit : {FALSE},
     limit : {0}]
    \cup [status : {None, "queued", "completed"},
          has_limit : {TRUE},
          limit : 0 .. MaxLimit]

\* File names asked for by GET /api/download/<id>/files/<filename>.
FileNames == {"video.mp4", "video.avi"}

(* ------------------------------------------------------------ filesystem *)

\* Path(app.config['DOWNLOADS_DIR']) / download_id: the directory that
\* download_worker lists and that delete_download removes.
AppDir(id) == <<"DOWNLOADS_DIR", id>>

\* VideoDownloader.__init__: output_dir is made relative to
\* ~/Downloads/VideoDownloader; pathlib keeps an absolute output_dir as it
\* is, so only an absolute DOWNLOADS_DIR makes the engine write into AppDir.
OutputDir(absolute, id) ==
    IF absolute THEN AppDir(id) ELSE <<"~/Downloads/VideoDownloader", id>>

\* setup_logging opens download.log inside output_dir.
LogFile == "download.log"

\* The order in which iterdir yields the names of a directory.
DirOrder == <<"download.log", "video.info.json", "video.mp4", "video.webm">>

\* [f.name for f in download_dir.iterdir() if f.is_file()]
ListFiles(names) == SelectSeq(DirOrder, LAMBDA f : f \in names)

(* ------------------------------------------------------------------ state *)

VARIABLES
    active_downloads,   \* the registry: download id -> record (a dict)
    download_lock,      \* the thread holding download_lock, or Unlocked
    fs,                 \* existing directories -> the file names in each
    downloads_dir_abs,  \* whether DOWNLOADS_DIR is configured absolute
    clock,              \* what datetime.now() returns
    next_id,            \* the next download id uuid4 hands out
    pc,                 \* per thread: the statement it executes next
    frame,              \* per thread: the locals of its handler
    resp,               \* the response a handler returned in the last step
    deleted,            \* ids whose DELETE request returned success
    was_downloading,    \* ids whose record has had status 'downloading'
    tree,               \* paths below DOWNLOADS_DIR -> is_file and mtime
    hour,               \* the wall clock of the cleanup thread, in hours
    sweeper             \* the cleanup thread: its position and locals

\* The state the request handlers work on.
appvars ==
    <<active_downloads, download_lock, fs, downloads_dir_abs, clock, next_id,
      pc, frame, resp, deleted, was_downloading>>

\* The state the cleanup thread works on.  `fs` holds the download
\* directories the handlers list and remove, without modification times;
\* `tree` holds what rglob('*') visits, with them.
sweepvars == <<tree, hour, sweeper>>

vars ==
    <<active_downloads, download_lock, fs, downloads_dir_abs, clock, next_id,
      pc, frame, resp, deleted, was_downloading, tree, hour, sweeper>>

\* The locals of a thread that serves no request.
IdleFrame ==
    [download_id |-> NoId,
     data |-> [has_url |-> FALSE, url |-> "https://host/v"],
     success |-> FALSE,
     e |-> "",
     status_filter |-> None,
     sorted_downloads |-> <<>>,
     removed |-> <<>>]

NoResponse == [handler |-> "", download_id |-> NoId, body |-> [code |-> 0]]

Present(id) == id \in DOMAIN active_downloads

\* d[key] = value on a Python dict.
SetItem(d, key, value) ==
    [k \in DOMAIN d \cup {key} |-> IF k = key THEN value ELSE d[k]]

\* active_downloads[id][key] = value (the id is present).
SetField(id, key, value) ==
    [active_downloads EXCEPT ![id] = SetItem(@, key, value)]

\* del active_downloads[id]
DelItem(id) ==
    [k \in DOMAIN active_downloads \ {id} |-> active_downloads[k]]

\* shutil.rmtree(dir)
RmTree(dir) == [k \in DOMAIN fs \ {dir} |-> fs[k]]

\* Files `names` written into `dir`, which is created when missing.
WriteFiles(dir, names) ==
    [k \in DOMAIN fs \cup {dir} |->
        IF k = dir
        THEN (IF dir \in DOMAIN fs THEN fs[dir] ELSE {}) \cup names
        ELSE fs[k]]

\* The cleanup thread before its first cycle.  `start`, `unlink_failed` and
\* `aborted` record the cycle in progress: the tree it started from, the
\* paths whose unlink raised, and whether it ended at line 83.
SweeperStart ==
    [pc |-> "cleanup:68", cleanup_time |-> 0, todo |-> <<>>, cycle |-> 1,
     start |-> <<>>, unlink_failed |-> {}, aborted |-> FALSE]

Init ==
    /\ active_downloads = <<>>
    /\ download_lock = Unlocked
    /\ fs = <<>>
    /\ downloads_dir_abs \in BOOLEAN
    /\ clock = 1
    /\ next_id = 1
    /\ pc = [t \in Threads |-> "idle"]
    /\ frame = [t \in Threads |-> IdleFrame]
    /\ resp = NoResponse
    /\ deleted = {}
    /\ was_downloading = {}
    /\ tree = <<>>
    /\ hour = Now0
    /\ sweeper = SweeperStart

(* --------------------------------------------------------------- helpers *)

\* Thread t moves to statement l; no handler returned in this step.
Goto(t, l) ==
    /\ pc' = [pc EXCEPT ![t] = l]
    /\ resp' = NoResponse

\* Thread t returns response `body` from `handler`, called for `id`.
Return(t, handler, id, body) ==
    /\ pc' = [pc EXCEPT ![t] = "idle"]
    /\ frame' = [frame EXCEPT ![t] = IdleFrame]
    /\ resp' = [handler |-> handler, download_id |-> id, body |-> body]

\* jsonify({'error': ...}), code
ErrorResponse(code, message) == [code |-> code, error |-> message]

\* `with download_lock:` can be entered by thread t: nobody holds the lock.
\* Entering is part of the step of the first statement of the block.
CanLock(t) == download_lock = Unlocked

\* Thread t is inside a `with download_lock:` block.
Holds(t) == download_lock = t

(* ------------------------------------------------ start_download, 218-254 *)

\* len([d for d in active_downloads.values()
\*      if d['status'] in ['queued', 'downloading']]), taken as one read of
\* the registry.
ActiveCount ==
    Cardinality({id \in DOMAIN active_downloads :
                    active_downloads[id].status \in ActiveStates})

\* The comparison of line 229 written with > in place of >=.
LimitReachedStrict(active_count) == active_count > MAX_CONCURRENT_DOWNLOADS

\* active_count >= app.config['MAX_CONCURRENT_DOWNLOADS']
LimitReached(active_count) == active_count >= MAX_CONCURRENT_DOWNLOADS

\* The 429 response; its message carries the configured cap.
LimitResponse ==
    [code |-> 429,
     error |-> "Maximum concurrent downloads reached",
     cap |-> MAX_CONCURRENT_DOWNLOADS]

\* The options dict built from the request body, which sets none of them.
Options(data) ==
    [quality |-> "best", audio_only |-> FALSE, playlist |-> FALSE]

\* The record stored for a new download.
NewRecord(data, now) ==
    [url |-> data.url,
     status |-> "queued",
     created_at |-> now,
     options |-> Options(data),
     files |-> <<>>]

\* Line 222 letting every request body through.
UrlMissingNever(data) == FALSE

\* not data or 'url' not in data: the body is None or empty, or it has no
\* key 'url' (a body that is None or empty has no key 'url').
UrlMissing(data) == ~data.has_url

\* Line 235 handing out the same id, the first one, to every request.
Uuid4Fixed == CHOOSE id \in JobIds : \A other \in JobIds : id <= other

\* str(uuid.uuid4()): a value that no earlier call returned.
Uuid4 == next_id

\* Lines 221-244: the request body is validated, the active downloads are
\* counted without download_lock, and an admitted request draws its id
\* (at most MaxJobs requests are admitted in one behaviour).
start_download_validate(t, data) ==
    /\ pc[t] = "idle"
    /\ UNCHANGED sweepvars
    /\ (data.has_url /\ ~LimitReached(ActiveCount)) => next_id <= MaxJobs
    /\ IF UrlMissing(data)
       THEN /\ Return(t, "start_download", NoId,
                      ErrorResponse(400, "URL is required"))
            /\ UNCHANGED next_id
       ELSE IF LimitReached(ActiveCount)
       THEN /\ Return(t, "start_download", NoId, LimitResponse)
            /\ UNCHANGED next_id
       ELSE /\ Goto(t, "start_download:247")
            /\ frame' = [frame EXCEPT ![t] =
                            [IdleFrame EXCEPT !.download_id = Uuid4,
                                              !.data = data]]
            /\ next_id' = next_id + 1
    /\ UNCHANGED <<active_downloads, download_lock, fs, downloads_dir_abs,
                   clock, deleted, was_downloading>>

\* Lines 247-254: under download_lock the record is stored.
start_download_store(t) ==
    /\ pc[t] = "start_download:247"
    /\ UNCHANGED sweepvars
    /\ CanLock(t)
    /\ active_downloads' =
          SetItem(active_downloads, frame[t].download_id,
                  NewRecord(frame[t].data, clock))
    /\ clock' = clock + 1
    /\ Goto(t, "download_worker:94")
    /\ UNCHANGED <<download_lock, fs, downloads_dir_abs, next_id, frame,
                   deleted, was_downloading>>

(* ------------------------------------------------ download_worker, 91-134 *)

\* Line 95 leaving the status as it was stored.
StartedStatusQueued == "queued"

\* The status written when the executor starts (line 95).
StartedStatus == "downloading"

\* Line 128 writing an empty message.
FailedErrorEmpty == ""

\* Line 133 writing the status a running job has.
ExceptStatusDownloading == "downloading"

\* Line 127 leaving the status a running job has.
FailedStatusDownloading == "downloading"

\* The status and message written when the engine returns False (127-128).
FailedStatus == "failed"

FailedError == "Download failed"

\* The status written by the except branch (line 133).
ExceptStatus == "failed"

\* What the engine call leaves behind: whether it reports success and the
\* files yt-dlp wrote.  The merged mp4 with its info json, or a single
\* stream kept in its own container; nothing on failure.
EngineOutcomes ==
    {[success |-> TRUE, files |-> {"video.mp4", "video.info.json"}],
     [success |-> TRUE, files |-> {"video.webm"}],
     [success |-> FALSE, files |-> {}]}

\* An exception that leaves the `with` block without releasing the lock.
RaiseHolding(t, message) ==
    /\ download_lock' = download_lock
    /\ frame' = [frame EXCEPT ![t].e = message]
    /\ Goto(t, "download_worker:132")

\* An exception raised in the try block (line 93): a held lock is released
\* and control moves to the except branch (line 130).
Raise(t, message) ==
    /\ download_lock' = IF Holds(t) THEN Unlocked ELSE download_lock
    /\ frame' = [frame EXCEPT ![t].e = message]
    /\ Goto(t, "download_worker:132")

\* Lines 94-95: the lock is taken and status = 'downloading' written;
\* KeyError when the record was deleted.
download_worker_set_downloading(t) ==
    /\ pc[t] = "download_worker:94"
    /\ UNCHANGED sweepvars
    /\ CanLock(t)
    /\ IF Present(frame[t].download_id)
       THEN /\ active_downloads' =
                  SetField(frame[t].download_id, "status", StartedStatus)
            /\ was_downloading' =
                  IF StartedStatus = "downloading"
                  THEN was_downloading \cup {frame[t].download_id}
                  ELSE was_downloading
            /\ download_lock' = t
            /\ Goto(t, "download_worker:96")
            /\ UNCHANGED frame
       ELSE /\ Raise(t, "KeyError")
            /\ UNCHANGED <<active_downloads, was_downloading>>
    /\ UNCHANGED <<fs, downloads_dir_abs, clock, next_id, deleted>>

\* Line 96: started_at = now; the lock is released.
download_worker_set_started_at(t) ==
    /\ pc[t] = "download_worker:96"
    /\ UNCHANGED sweepvars
    /\ Holds(t)
    /\ active_downloads' =
          SetField(frame[t].download_id, "started_at", clock)
    /\ download_lock' = Unlocked
    /\ Goto(t, "download_worker:99")
    /\ UNCHANGED <<fs, downloads_dir_abs, clock, next_id, frame, deleted,
                   was_downloading>>

\* Lines 99-102: VideoDownloader(output_dir=DOWNLOADS_DIR/<id>) creates its
\* output directory and opens download.log in it; `ok` is whether the
\* filesystem lets it (an OSError is caught by line 130).
download_worker_new_downloader(t, ok) ==
    /\ pc[t] = "download_worker:99"
    /\ UNCHANGED sweepvars
    /\ IF ok
       THEN /\ fs' = WriteFiles(OutputDir(downloads_dir_abs,
                                          frame[t].download_id), {LogFile})
            /\ Goto(t, "download_worker:105")
            /\ UNCHANGED <<download_lock, frame>>
       ELSE /\ Raise(t, "OSError")
            /\ UNCHANGED fs
    /\ UNCHANGED <<active_downloads, downloads_dir_abs, clock, next_id,
                   deleted, was_downloading>>

\* Lines 105-115: the engine call.  download_video and download_playlist
\* catch every exception and return False; yt-dlp writes its files into
\* the output directory (creating it when missing).
download_worker_download(t, outcome) ==
    /\ pc[t] = "download_worker:105"
    /\ UNCHANGED sweepvars
    /\ fs' = IF outcome.files # {}
             THEN WriteFiles(OutputDir(downloads_dir_abs,
                                       frame[t].download_id), outcome.files)
             ELSE fs
    /\ frame' = [frame EXCEPT ![t].success = outcome.success]
    /\ Goto(t, "download_worker:117")
    /\ UNCHANGED <<active_downloads, download_lock, downloads_dir_abs, clock,
                   next_id, deleted, was_downloading>>

\* Lines 117-119 and 127: the lock is taken and the status of the outcome
\* written; KeyError when the record was deleted.
download_worker_set_status(t) ==
    /\ pc[t] = "download_worker:117"
    /\ UNCHANGED sweepvars
    /\ CanLock(t)
    /\ IF Present(frame[t].download_id)
       THEN /\ active_downloads' =
                  SetField(frame[t].download_id, "status",
                           IF frame[t].success THEN "completed"
                           ELSE FailedStatus)
            /\ download_lock' = t
            /\ Goto(t, IF frame[t].success THEN "download_worker:120"
                       ELSE "download_worker:128")
            /\ UNCHANGED frame
       ELSE /\ Raise(t, "KeyError")
            /\ UNCHANGED active_downloads
    /\ UNCHANGED <<fs, downloads_dir_abs, clock, next_id, deleted,
                   was_downloading>>

\* Line 120: completed_at = now.
download_worker_set_completed_at(t) ==
    /\ pc[t] = "download_worker:120"
    /\ UNCHANGED sweepvars
    /\ Holds(t)
    /\ active_downloads' =
          SetField(frame[t].download_id, "completed_at", clock)
    /\ Goto(t, "download_worker:123")
    /\ UNCHANGED <<download_lock, fs, downloads_dir_abs, clock, next_id,
                   frame, deleted, was_downloading>>

\* Lines 123-125: the files of DOWNLOADS_DIR/<id> are listed and stored, and
\* the lock is released; iterdir raises FileNotFoundError when the directory
\* does not exist.
download_worker_set_files(t) ==
    /\ pc[t] = "download_worker:123"
    /\ UNCHANGED sweepvars
    /\ Holds(t)
    /\ IF AppDir(frame[t].download_id) \in DOMAIN fs
       THEN /\ active_downloads' =
                  SetField(frame[t].download_id, "files",
                           ListFiles(fs[AppDir(frame[t].download_id)]))
            /\ download_lock' = Unlocked
            /\ Goto(t, "start_download:260")
            /\ UNCHANGED frame
       ELSE /\ Raise(t, "FileNotFoundError")
            /\ UNCHANGED active_downloads
    /\ UNCHANGED <<fs, downloads_dir_abs, clock, next_id, deleted,
                   was_downloading>>

\* Line 128: error = 'Download failed'; the lock is released.
download_worker_set_error(t) ==
    /\ pc[t] = "download_worker:128"
    /\ UNCHANGED sweepvars
    /\ Holds(t)
    /\ active_downloads' =
          SetField(frame[t].download_id, "error", FailedError)
    /\ download_lock' = Unlocked
    /\ Goto(t, "start_download:260")
    /\ UNCHANGED <<fs, downloads_dir_abs, clock, next_id, frame, deleted,
                   was_downloading>>

\* Lines 132-133 on a registry that creates the record it is asked for
\* (setdefault) in place of raising KeyError.
download_worker_except_status_setdefault(t) ==
    /\ pc[t] = "download_worker:132"
    /\ UNCHANGED sweepvars
    /\ CanLock(t)
    /\ active_downloads' =
          SetItem(active_downloads, frame[t].download_id,
                  SetItem(IF Present(frame[t].download_id)
                          THEN active_downloads[frame[t].download_id]
                          ELSE <<>>,
                          "status", ExceptStatus))
    /\ download_lock' = t
    /\ Goto(t, "download_worker:134")
    /\ UNCHANGED <<fs, downloads_dir_abs, clock, next_id, frame, deleted,
                   was_downloading>>

\* Lines 132-133: in the except branch the lock is taken and
\* status = 'failed' written.  A KeyError here is raised outside the try
\* block: it leaves download_worker and is caught at line 279.
download_worker_except_status(t) ==
    /\ pc[t] = "download_worker:132"
    /\ UNCHANGED sweepvars
    /\ CanLock(t)
    /\ IF Present(frame[t].download_id)
       THEN /\ active_downloads' =
                  SetField(frame[t].download_id, "status", ExceptStatus)
            /\ download_lock' = t
            /\ Goto(t, "download_worker:134")
            /\ UNCHANGED frame
       ELSE /\ Return(t, "start_download", frame[t].download_id,
                      ErrorResponse(500, "KeyError"))
            /\ UNCHANGED <<active_downloads, download_lock>>
    /\ UNCHANGED <<fs, downloads_dir_abs, clock, next_id, deleted,
                   was_downloading>>

\* Line 134: error = str(e); the lock is released.
download_worker_except_error(t) ==
    /\ pc[t] = "download_worker:134"
    /\ UNCHANGED sweepvars
    /\ Holds(t)
    /\ active_downloads' =
          SetField(frame[t].download_id, "error", frame[t].e)
    /\ download_lock' = Unlocked
    /\ Goto(t, "start_download:260")
    /\ UNCHANGED <<fs, downloads_dir_abs, clock, next_id, frame, deleted,
                   was_downloading>>

(* ------------------------------------------------ start_download, 256-281 *)

\* The characters of the file names the model uses.
Chars(name) ==
    CASE name = "video.mp4" ->
            <<"v", "i", "d", "e", "o", ".", "m", "p", "4">>
      [] name = "video.info.json" ->
            <<"v", "i", "d", "e", "o", ".", "i", "n", "f", "o", ".",
              "j", "s", "o", "n">>
      [] name = "video.webm" ->
            <<"v", "i", "d", "e", "o", ".", "w", "e", "b", "m">>
      [] name = "download.log" ->
            <<"d", "o", "w", "n", "l", "o", "a", "d", ".", "l", "o", "g">>
      [] name = "CLIP.MP4" ->
            <<"C", "L", "I", "P", ".", "M", "P", "4">>
      [] name = "Movie.Mp4" ->
            <<"M", "o", "v", "i", "e", ".", "M", "p", "4">>
      [] name = "video.mp4.part" ->
            <<"v", "i", "d", "e", "o", ".", "m", "p", "4", ".",
              "p", "a", "r", "t">>
      [] name = "mp4" ->
            <<"m", "p", "4">>
      [] OTHER -> <<>>

UpperCase ==
    <<"A", "B", "C", "D", "E", "F", "G", "H", "I", "J", "K", "L", "M",
      "N", "O", "P", "Q", "R", "S", "T", "U", "V", "W", "X", "Y", "Z">>

LowerCase ==
    <<"a", "b", "c", "d", "e", "f", "g", "h", "i", "j", "k", "l", "m",
      "n", "o", "p", "q", "r", "s", "t", "u", "v", "w", "x", "y", "z">>

\* Line 270 comparing the name as it is, without lower().
LowerCharIdentity(c) == c

\* str.lower() on one character.
LowerChar(c) ==
    IF \E i \in 1 .. Len(UpperCase) : UpperCase[i] = c
    THEN LowerCase[CHOOSE i \in 1 .. Len(UpperCase) : UpperCase[i] = c]
    ELSE c

\* s.endswith(suffix) on character sequences.
EndsWith(s, suffix) ==
    /\ Len(s) >= Len(suffix)
    /\ \A i \in 1 .. Len(suffix) :
          s[Len(s) - Len(suffix) + i] = suffix[i]

\* f.lower().endswith('.mp4')
IsMp4(name) ==
    EndsWith([i \in 1 .. Len(Chars(name)) |-> LowerChar(Chars(name)[i])],
             <<".", "m", "p", "4">>)

\* [f for f in download_info.get('files', []) if f.lower().endswith('.mp4')]
Mp4Files(files) == SelectSeq(files, IsMp4)

\* download_info.get('error', 'Unknown error')
ErrorOf(download_info) ==
    IF "error" \in DOMAIN download_info
    THEN download_info.error
    ELSE "Unknown error"

\* Lines 260-281: the record is fetched and the response built.  A KeyError
\* (the record was deleted) and the IndexError of mp4_files[0] on an empty
\* list are caught at line 279.  Line 276 writes the entry 'file_url' with
\* `=`, which Python does not parse; it is modelled as the dictionary entry
\* 'file_url': ... that the handler is written to return.
start_download_respond(t) ==
    /\ pc[t] = "start_download:260"
    /\ UNCHANGED sweepvars
    /\ LET id == frame[t].download_id IN
       IF ~Present(id)
       THEN Return(t, "start_download", frame[t].download_id, ErrorResponse(500, "KeyError"))
       ELSE LET download_info == active_downloads[id] IN
            IF download_info.status # "completed"
            THEN Return(t, "start_download", frame[t].download_id, [code |-> 500,
                            success |-> FALSE,
                            download_id |-> id,
                            status |-> download_info.status,
                            error |-> ErrorOf(download_info)])
            ELSE IF Mp4Files(download_info.files) = <<>>
            THEN Return(t, "start_download", frame[t].download_id, ErrorResponse(500, "IndexError"))
            ELSE Return(t, "start_download", frame[t].download_id, [code |-> 200,
                            success |-> TRUE,
                            download_id |-> id,
                            files |-> Mp4Files(download_info.files)])
    /\ UNCHANGED <<active_downloads, download_lock, fs, downloads_dir_abs,
                   clock, next_id, deleted, was_downloading>>

(* ---------------------------------------------- get_download_status, 284 *)

\* Line 287: download_id not in active_downloads.
get_download_status_check(t, id) ==
    /\ pc[t] = "idle"
    /\ UNCHANGED sweepvars
    /\ IF ~Present(id)
       THEN Return(t, "get_download_status", id, ErrorResponse(404, "Download ID not found"))
       ELSE /\ Goto(t, "get_download_status:290")
            /\ frame' = [frame EXCEPT ![t] =
                            [IdleFrame EXCEPT !.download_id = id]]
    /\ UNCHANGED <<active_downloads, download_lock, fs, downloads_dir_abs,
                   clock, next_id, deleted, was_downloading>>

\* Lines 290-293: the record is read; an uncaught KeyError (the record was
\* deleted after the check) becomes Flask's 500 response.
get_download_status_read(t) ==
    /\ pc[t] = "get_download_status:290"
    /\ UNCHANGED sweepvars
    /\ IF Present(frame[t].download_id)
       THEN Return(t, "get_download_status", frame[t].download_id, [code |-> 200,
                       success |-> TRUE,
                       download |-> active_downloads[frame[t].download_id]])
       ELSE Return(t, "get_download_status", frame[t].download_id, ErrorResponse(500, "Internal server error"))
    /\ UNCHANGED <<active_downloads, download_lock, fs, downloads_dir_abs,
                   clock, next_id, deleted, was_downloading>>

(* -------------------------------------------------- cancel_download, 349 *)

\* download_info['status'] not in ['queued', 'downloading']
NotCancellable(status) == status \notin {"queued", "downloading"}

\* Line 352: download_id not in active_downloads.
cancel_download_check(t, id) ==
    /\ pc[t] = "idle"
    /\ UNCHANGED sweepvars
    /\ IF ~Present(id)
       THEN Return(t, "cancel_download", id, ErrorResponse(404, "Download ID not found"))
       ELSE /\ Goto(t, "cancel_download:355")
            /\ frame' = [frame EXCEPT ![t] =
                            [IdleFrame EXCEPT !.download_id = id]]
    /\ UNCHANGED <<active_downloads, download_lock, fs, downloads_dir_abs,
                   clock, next_id, deleted, was_downloading>>

\* Lines 355-357: the status is read without download_lock.
cancel_download_state(t) ==
    /\ pc[t] = "cancel_download:355"
    /\ UNCHANGED sweepvars
    /\ IF ~Present(frame[t].download_id)
       THEN Return(t, "cancel_download", frame[t].download_id, ErrorResponse(500, "Internal server error"))
       ELSE IF NotCancellable(active_downloads[frame[t].download_id].status)
       THEN Return(t, "cancel_download", frame[t].download_id, ErrorResponse(400,
                         "Cannot cancel download in current state"))
       ELSE /\ Goto(t, "cancel_download:359")
            /\ UNCHANGED frame
    /\ UNCHANGED <<active_downloads, download_lock, fs, downloads_dir_abs,
                   clock, next_id, deleted, was_downloading>>

\* Line 360 overwriting the url as well.
CancelledUrlCleared(record) ==
    SetItem(SetItem(record, "status", "cancelled"), "url", "")

\* The record after active_downloads[download_id]['status'] = 'cancelled'.
Cancelled(record) == SetItem(record, "status", "cancelled")

\* Lines 359-360: the lock is taken and status = 'cancelled' written; an
\* uncaught KeyError (the record was deleted) becomes Flask's 500 response.
cancel_download_set_status(t) ==
    /\ pc[t] = "cancel_download:359"
    /\ UNCHANGED sweepvars
    /\ CanLock(t)
    /\ IF Present(frame[t].download_id)
       THEN /\ active_downloads' =
                  [active_downloads EXCEPT
                      ![frame[t].download_id] = Cancelled(@)]
            /\ download_lock' = t
            /\ Goto(t, "cancel_download:361")
            /\ UNCHANGED frame
       ELSE /\ Return(t, "cancel_download", frame[t].download_id,
                      ErrorResponse(500, "Internal server error"))
            /\ UNCHANGED <<active_downloads, download_lock>>
    /\ UNCHANGED <<fs, downloads_dir_abs, clock, next_id, deleted,
                   was_downloading>>

\* Lines 361-366: cancelled_at = now; the lock is released.
cancel_download_set_cancelled_at(t) ==
    /\ pc[t] = "cancel_download:361"
    /\ UNCHANGED sweepvars
    /\ Holds(t)
    /\ active_downloads' =
          SetField(frame[t].download_id, "cancelled_at", clock)
    /\ download_lock' = Unlocked
    /\ Return(t, "cancel_download", frame[t].download_id,
              [code |-> 200, success |-> TRUE,
               message |-> "Download cancelled"])
    /\ UNCHANGED <<fs, downloads_dir_abs, clock, next_id, deleted,
                   was_downloading>>

(* -------------------------------------------------- delete_download, 369 *)

\* Line 372: download_id not in active_downloads.
delete_download_check(t, id) ==
    /\ pc[t] = "idle"
    /\ UNCHANGED sweepvars
    /\ IF ~Present(id)
       THEN Return(t, "delete_download", id, ErrorResponse(404, "Download ID not found"))
       ELSE /\ Goto(t, "delete_download:377")
            /\ frame' = [frame EXCEPT ![t] =
                            [IdleFrame EXCEPT !.download_id = id]]
    /\ UNCHANGED <<active_downloads, download_lock, fs, downloads_dir_abs,
                   clock, next_id, deleted, was_downloading>>

\* Lines 377-380: DOWNLOADS_DIR/<id> is removed when it exists.
delete_download_rmtree(t) ==
    /\ pc[t] = "delete_download:377"
    /\ UNCHANGED sweepvars
    /\ fs' = IF AppDir(frame[t].download_id) \in DOMAIN fs
             THEN RmTree(AppDir(frame[t].download_id))
             ELSE fs
    /\ Goto(t, "delete_download:383")
    /\ UNCHANGED <<active_downloads, download_lock, downloads_dir_abs, clock,
                   next_id, frame, deleted, was_downloading>>

\* The record of id leaves the registry while the listing of frame f still
\* refers to it: dict(active_downloads) at line 302 copies the references,
\* so the listing keeps the record object as it is at this moment (no
\* statement can write to it any more).
Detach(f, id) ==
    IF \E i \in 1 .. Len(f.sorted_downloads) : f.sorted_downloads[i] = id
    THEN [f EXCEPT !.removed = SetItem(@, id, active_downloads[id])]
    ELSE f

\* Lines 383-393: under download_lock, del active_downloads[download_id];
\* a KeyError (the record is already deleted) is caught at line 391.
delete_download_del(t) ==
    /\ pc[t] = "delete_download:383"
    /\ UNCHANGED sweepvars
    /\ CanLock(t)
    /\ IF Present(frame[t].download_id)
       THEN /\ active_downloads' = DelItem(frame[t].download_id)
            /\ deleted' = deleted \cup {frame[t].download_id}
            /\ pc' = [pc EXCEPT ![t] = "idle"]
            /\ frame' = [u \in Threads |->
                            IF u = t
                            THEN IdleFrame
                            ELSE Detach(frame[u], frame[t].download_id)]
            /\ resp' = [handler |-> "delete_download",
                        download_id |-> frame[t].download_id,
                        body |-> [code |-> 200, success |-> TRUE,
                                  message |-> "Download deleted"]]
       ELSE /\ Return(t, "delete_download", frame[t].download_id,
                      ErrorResponse(500, "KeyError"))
            /\ UNCHANGED <<active_downloads, deleted>>
    /\ UNCHANGED <<download_lock, fs, downloads_dir_abs, clock, next_id,
                   was_downloading>>

(* --------------------------------------------------- list_downloads, 296 *)

\* `if x:` on a query parameter: None and '' are false.
Truthy(x) == x # None /\ x # ""

\* Lines 302-306: the ids of the copy of the registry, filtered by status.
Filtered(status_filter) ==
    {id \in DOMAIN active_downloads :
        Truthy(status_filter) =>
            active_downloads[id].status = status_filter}

\* Lines 309-311: sorted(..., key=created_at, reverse=True) as the sequence
\* of the ids, newest first.
SortedNewestFirst(ids) ==
    CHOOSE seq \in [1 .. Cardinality(ids) -> ids] :
        /\ \A i, j \in DOMAIN seq : i # j => seq[i] # seq[j]
        /\ \A i, j \in DOMAIN seq :
              i < j => active_downloads[seq[i]].created_at
                          >= active_downloads[seq[j]].created_at

\* list(...)[:limit] for limit >= 0.
Prefix(seq, limit) ==
    IF limit >= Len(seq) THEN seq ELSE SubSeq(seq, 1, limit)

\* Lines 313-314: `if limit:` applies the slice only to a limit that is
\* given and not 0.
Limited(seq, has_limit, limit) ==
    IF has_limit /\ limit # 0 THEN Prefix(seq, limit) ELSE seq

\* Lines 299-314: the registry is copied (the records are shared with it,
\* not copied), filtered, sorted and cut to the limit.
list_downloads_select(t, args) ==
    /\ pc[t] = "idle"
    /\ UNCHANGED sweepvars
    /\ frame' = [frame EXCEPT ![t] =
                    [IdleFrame EXCEPT
                        !.status_filter = args.status,
                        !.sorted_downloads =
                            Limited(SortedNewestFirst(Filtered(args.status)),
                                    args.has_limit, args.limit)]]
    /\ Goto(t, "list_downloads:316")
    /\ UNCHANGED <<active_downloads, download_lock, fs, downloads_dir_abs,
                   clock, next_id, deleted, was_downloading>>

\* The record object the listing of frame f holds for id: the one in the
\* registry, or the one that was deleted from it in the meantime.
Referenced(f, id) ==
    IF id \in DOMAIN f.removed THEN f.removed[id] ELSE active_downloads[id]

\* Lines 316-320: jsonify serialises the records as they are now.
list_downloads_respond(t) ==
    /\ pc[t] = "list_downloads:316"
    /\ UNCHANGED sweepvars
    /\ Return(t, "list_downloads", NoId,
              [code |-> 200, success |-> TRUE,
               downloads |->
                  [i \in 1 .. Len(frame[t].sorted_downloads) |->
                      [download_id |-> frame[t].sorted_downloads[i],
                       info |-> Referenced(frame[t],
                                           frame[t].sorted_downloads[i])]],
               total |-> Len(frame[t].sorted_downloads)])
    /\ UNCHANGED <<active_downloads, download_lock, fs, downloads_dir_abs,
                   clock, next_id, deleted, was_downloading>>

(* ---------------------------------------------------- download_file, 323 *)

\* download_file without the test of line 326.
download_file_unchecked(t, id) ==
    /\ pc[t] = "idle"
    /\ UNCHANGED sweepvars
    /\ Goto(t, "download_file:329")
    /\ frame' = [frame EXCEPT ![t] = [IdleFrame EXCEPT !.download_id = id]]
    /\ UNCHANGED <<active_downloads, download_lock, fs, downloads_dir_abs,
                   clock, next_id, deleted, was_downloading>>

\* Line 330 letting every status through.
ServableAlways(status) == TRUE

\* Line 330: download_info['status'] != 'completed' is false.
Servable(status) == status = "completed"

\* Line 326: download_id not in active_downloads.
download_file_check(t, id) ==
    /\ pc[t] = "idle"
    /\ UNCHANGED sweepvars
    /\ IF ~Present(id)
       THEN Return(t, "download_file", id,
                   ErrorResponse(404, "Download ID not found"))
       ELSE /\ Goto(t, "download_file:329")
            /\ frame' = [frame EXCEPT ![t] =
                            [IdleFrame EXCEPT !.download_id = id]]
    /\ UNCHANGED <<active_downloads, download_lock, fs, downloads_dir_abs,
                   clock, next_id, deleted, was_downloading>>

\* Lines 329-331: the status is read; an uncaught KeyError (the record was
\* deleted after the check) becomes Flask's 500 response.
download_file_state(t) ==
    /\ pc[t] = "download_file:329"
    /\ UNCHANGED sweepvars
    /\ IF ~Present(frame[t].download_id)
       THEN Return(t, "download_file", frame[t].download_id,
                   ErrorResponse(500, "Internal server error"))
       ELSE IF ~Servable(active_downloads[frame[t].download_id].status)
       THEN Return(t, "download_file", frame[t].download_id,
                   ErrorResponse(400, "Download not completed"))
       ELSE /\ Goto(t, "download_file:333")
            /\ UNCHANGED frame
    /\ UNCHANGED <<active_downloads, download_lock, fs, downloads_dir_abs,
                   clock, next_id, deleted, was_downloading>>

\* Lines 333-346: DOWNLOADS_DIR/<id>/<filename> is sent when it exists.
download_file_send(t, filename) ==
    /\ pc[t] = "download_file:333"
    /\ UNCHANGED sweepvars
    /\ IF /\ AppDir(frame[t].download_id) \in DOMAIN fs
          /\ filename \in fs[AppDir(frame[t].download_id)]
       THEN Return(t, "download_file", frame[t].download_id,
                   [code |-> 200, attachment |-> filename])
       ELSE Return(t, "download_file", frame[t].download_id,
                   ErrorResponse(404, "File not found"))
    /\ UNCHANGED <<active_downloads, download_lock, fs, downloads_dir_abs,
                   clock, next_id, deleted, was_downloading>>

(* ------------------------------- DownloadManager._cleanup_old_files, 64 *)

\* The order in which downloads_dir.rglob('*') yields the paths below
\* DOWNLOADS_DIR: the directory of a download, then the files in it.
RglobOrder ==
    <<"1", "1/download.log", "1/video.mp4", "2", "2/video.mp4">>

\* The directory a path of RglobOrder lies in ("" is DOWNLOADS_DIR itself).
Parent(p) ==
    CASE p \in {"1/download.log", "1/video.mp4"} -> "1"
      [] p = "2/video.mp4" -> "2"
      [] OTHER -> ""

\* Modification times: 25 hours, exactly CLEANUP_INTERVAL_HOURS, and one
\* hour before the cleanup thread starts.
MTimes ==
    {Now0 - CLEANUP_INTERVAL_HOURS - 1, Now0 - CLEANUP_INTERVAL_HOURS,
     Now0 - 1}

\* The trees below DOWNLOADS_DIR: the paths directly below it are
\* directories, the others files, and a file lies in an existing directory.
Trees ==
    {tr \in UNION {[ps -> [is_file : BOOLEAN, mtime : MTimes]] :
                      ps \in SUBSET {RglobOrder[i] : i \in DOMAIN RglobOrder}} :
        \A p \in DOMAIN tr :
            /\ tr[p].is_file = (Parent(p) # "")
            /\ Parent(p) # "" => Parent(p) \in DOMAIN tr}

\* Line 74 for a cleanup thread that spares the files while a download is
\* 'queued' or 'downloading'.
OlderWhenIdle(file_mtime, cleanup_time) ==
    file_mtime < cleanup_time /\ ActiveCount = 0

\* Line 74 written with <= in place of <.
OlderOrEqual(file_mtime, cleanup_time) == file_mtime <= cleanup_time

\* file_mtime < cleanup_time (line 74)
Older(file_mtime, cleanup_time) == file_mtime < cleanup_time

\* file_path.unlink()
Unlink(p) == [q \in DOMAIN tree \ {p} |-> tree[q]]

\* What the filesystem does to the calls of one visit: nothing fails, stat
\* raises (line 73), or unlink raises (line 76).
IoOutcomes == {"ok", "stat_error", "unlink_error"}

\* An exception of stat that nothing catches: the thread ends.
AfterStatErrorExit == "cleanup:exit"

\* Where an exception of stat (line 73) is handled: by the except of line
\* 83, inside `while True`, which logs it and sleeps at line 85.
AfterStatError == "cleanup:85"

\* The exception of unlink caught by the except of line 83, outside the
\* loop.
AfterUnlinkErrorAbort == "cleanup:85"

\* Where the loop goes on after unlink raised: the except of line 78 is
\* inside the for loop, so the next path is visited.
AfterUnlinkError == "cleanup:72"

\* Lines 68-71: cleanup_time is computed and the walk starts.
cleanup_start ==
    /\ sweeper.pc = "cleanup:68"
    /\ sweeper' =
          [sweeper EXCEPT
              !.pc = "cleanup:72",
              !.cleanup_time = hour - CLEANUP_INTERVAL_HOURS,
              !.todo = SelectSeq(RglobOrder, LAMBDA p : p \in DOMAIN tree),
              !.start = tree,
              !.unlink_failed = {},
              !.aborted = FALSE]
    /\ UNCHANGED <<tree, hour>>
    /\ UNCHANGED appvars

\* Lines 71-79: one path of the walk.  A directory is passed over; a file
\* is stat-ed and, when older than cleanup_time, unlinked.  An exception of
\* stat leaves the loop for line 83; an exception of unlink is logged at
\* line 79 and the loop goes on.
cleanup_visit(io) ==
    /\ sweeper.pc = "cleanup:72"
    /\ sweeper.todo # <<>>
    /\ LET p == Head(sweeper.todo) IN
       IF ~tree[p].is_file
       THEN /\ sweeper' = [sweeper EXCEPT !.todo = Tail(@)]
            /\ UNCHANGED tree
       ELSE IF io = "stat_error"
       THEN /\ sweeper' = [sweeper EXCEPT !.pc = AfterStatError,
                                          !.aborted = TRUE]
            /\ UNCHANGED tree
       ELSE IF ~Older(tree[p].mtime, sweeper.cleanup_time)
       THEN /\ sweeper' = [sweeper EXCEPT !.todo = Tail(@)]
            /\ UNCHANGED tree
       ELSE IF io = "unlink_error"
       THEN /\ sweeper' =
                  [sweeper EXCEPT
                      !.pc = AfterUnlinkError,
                      !.todo = Tail(@),
                      !.unlink_failed = @ \cup {p},
                      !.aborted = (AfterUnlinkError # "cleanup:72")]
            /\ UNCHANGED tree
       ELSE /\ tree' = Unlink(p)
            /\ sweeper' = [sweeper EXCEPT !.todo = Tail(@)]
    /\ UNCHANGED hour
    /\ UNCHANGED appvars

\* The walk is exhausted: the loop ends and line 82 is reached.
cleanup_done ==
    /\ sweeper.pc = "cleanup:72"
    /\ sweeper.todo = <<>>
    /\ sweeper' = [sweeper EXCEPT !.pc = "cleanup:82"]
    /\ UNCHANGED <<tree, hour>>
    /\ UNCHANGED appvars

\* Lines 82 and 85: time.sleep(3600) returns and the next cycle starts.
cleanup_sleep ==
    /\ sweeper.pc \in {"cleanup:82", "cleanup:85"}
    /\ sweeper.cycle < MaxCycles
    /\ hour' = hour + SleepHours
    /\ sweeper' = [sweeper EXCEPT !.pc = "cleanup:68", !.cycle = @ + 1]
    /\ UNCHANGED tree
    /\ UNCHANGED appvars

(* ------------------------------------------------------- specification *)

\* The statements of start_download after its first and of the executor it
\* calls.
SubmitStep(t) ==
    \/ start_download_store(t)
    \/ download_worker_set_downloading(t)
    \/ download_worker_set_started_at(t)
    \/ \E ok \in BOOLEAN : download_worker_new_downloader(t, ok)
    \/ \E outcome \in EngineOutcomes : download_worker_download(t, outcome)
    \/ download_worker_set_status(t)
    \/ download_worker_set_completed_at(t)
    \/ download_worker_set_files(t)
    \/ download_worker_set_error(t)
    \/ download_worker_except_status(t)
    \/ download_worker_except_error(t)
    \/ start_download_respond(t)

\* The statements of delete_download after its first.
DeleteStep(t) ==
    \/ delete_download_rmtree(t)
    \/ delete_download_del(t)

\* A request arrives and thread t runs its handler up to the first
\* statement that another thread can interleave with.
Begin(t) ==
    \/ \E data \in Requests : start_download_validate(t, data)
    \/ \E id \in JobIds : get_download_status_check(t, id)
    \/ \E id \in JobIds : cancel_download_check(t, id)
    \/ \E id \in JobIds : delete_download_check(t, id)
    \/ \E id \in JobIds : download_file_check(t, id)

\* Thread t executes the next statement of the handler it is in.
Step(t) ==
    \/ SubmitStep(t)
    \/ get_download_status_read(t)
    \/ cancel_download_state(t)
    \/ cancel_download_set_status(t)
    \/ cancel_download_set_cancelled_at(t)
    \/ DeleteStep(t)
    \/ download_file_state(t)
    \/ \E filename \in FileNames : download_file_send(t, filename)

Next == \E t \in Threads : Begin(t) \/ Step(t)

Spec == Init /\ [][Next]_vars

\* The server with clients that submit, delete and list downloads.
ListNext ==
    \E t \in Threads :
        \/ \E data \in Requests : start_download_validate(t, data)
        \/ \E id \in JobIds : delete_download_check(t, id)
        \/ \E args \in ListArgs : list_downloads_select(t, args)
        \/ SubmitStep(t)
        \/ DeleteStep(t)
        \/ list_downloads_respond(t)

ListSpec == Init /\ [][ListNext]_vars

\* The file names a download directory may hold when the filter of line 270
\* is applied: yt-dlp names its files after the title of the video.
FilterNames ==
    {"video.mp4", "CLIP.MP4", "Movie.Mp4", "video.info.json",
     "video.mp4.part", "mp4"}

\* The listings iterdir can yield from at most MaxFiles of these names: every
\* order, no name twice.
FileLists ==
    {fl \in UNION {[1 .. n -> FilterNames] : n \in 0 .. MaxFiles} :
        \A i, j \in 1 .. Len(fl) : fl[i] = fl[j] => i = j}

\* download_worker has returned to start_download (line 257) with the first
\* job completed and `files` the listing of its directory.
FilterInit ==
    /\ \E fl \in FileLists :
          /\ active_downloads =
                1 :> [url |-> "https://host/v",
                      status |-> "completed",
                      created_at |-> 1,
                      options |-> Options(IdleFrame.data),
                      files |-> fl,
                      started_at |-> 2,
                      completed_at |-> 2]
          /\ fs = AppDir(1) :> {fl[i] : i \in 1 .. Len(fl)}
    /\ download_lock = Unlocked
    /\ downloads_dir_abs = TRUE
    /\ clock = 2
    /\ next_id = 2
    /\ pc = [t \in Threads |-> IF t = 1 THEN "start_download:260" ELSE "idle"]
    /\ frame = [t \in Threads |->
                  IF t = 1
                  THEN [IdleFrame EXCEPT !.download_id = 1,
                                         !.data.has_url = TRUE,
                                         !.success = TRUE]
                  ELSE IdleFrame]
    /\ resp = NoResponse
    /\ deleted = {}
    /\ was_downloading = {1}
    /\ tree = <<>>
    /\ hour = Now0
    /\ sweeper = SweeperStart

\* Lines 260-277 applied to the record.
FilterNext == \E t \in Threads : start_download_respond(t)

FilterSpec == FilterInit /\ [][FilterNext]_vars

\* No request is being served and the registry is empty.
IdleApp ==
    /\ active_downloads = <<>>
    /\ download_lock = Unlocked
    /\ fs = <<>>
    /\ downloads_dir_abs = FALSE
    /\ clock = 1
    /\ next_id = 1
    /\ pc = [t \in Threads |-> "idle"]
    /\ frame = [t \in Threads |-> IdleFrame]
    /\ resp = NoResponse
    /\ deleted = {}
    /\ was_downloading = {}

\* The record of the first download once line 95 has been executed.
FirstDownloading ==
    SetItem(NewRecord([has_url |-> TRUE, url |-> "https://host/v"], 1),
            "status", "downloading")

\* Thread 1 serves the first submission, DOWNLOADS_DIR being absolute, and
\* its executor has executed line 95 and holds download_lock
\* (in_engine = FALSE), or has constructed VideoDownloader and is in the
\* engine call (in_engine = TRUE).
ExecutorApp(in_engine) ==
    /\ active_downloads =
          <<IF in_engine
            THEN SetItem(FirstDownloading, "started_at", 2)
            ELSE FirstDownloading>>
    /\ download_lock = IF in_engine THEN Unlocked ELSE 1
    /\ fs = IF in_engine THEN [d \in {AppDir(1)} |-> {LogFile}] ELSE <<>>
    /\ downloads_dir_abs = TRUE
    /\ clock = 2
    /\ next_id = 2
    /\ pc = [t \in Threads |->
                IF t # 1 THEN "idle"
                ELSE IF in_engine THEN "download_worker:105"
                ELSE "download_worker:96"]
    /\ frame = [t \in Threads |->
                   IF t # 1 THEN IdleFrame
                   ELSE [IdleFrame EXCEPT
                            !.download_id = 1,
                            !.data = [has_url |-> TRUE,
                                      url |-> "https://host/v"]]]
    /\ resp = NoResponse
    /\ deleted = {}
    /\ was_downloading = {1}

\* The cleanup thread alone, started on any tree below DOWNLOADS_DIR, while
\* no request is served or while the executor of the first download is
\* inside its locked block or inside the engine call (the directory "1" of
\* the tree is then the one of that download, with its download.log once
\* VideoDownloader is constructed).
SweepInit ==
    /\ \/ IdleApp
       \/ ExecutorApp(FALSE)
       \/ ExecutorApp(TRUE)
    /\ tree \in Trees
    /\ pc[1] = "download_worker:105" => "1/download.log" \in DOMAIN tree
    /\ hour = Now0
    /\ sweeper = SweeperStart

SweepNext ==
    \/ cleanup_start
    \/ \E io \in IoOutcomes : cleanup_visit(io)
    \/ cleanup_done
    \/ cleanup_sleep

SweepSpec == SweepInit /\ [][SweepNext]_vars

\* The cleanup thread is scheduled, its filesystem calls return or raise,
\* and time.sleep(3600) returns.
FairSweepSpec == SweepSpec /\ WF_vars(SweepNext)

\* The server after a first job, whose VideoDownloader could not be
\* constructed, has been submitted and deleted again: the registry and the
\* disk are empty, the first id is used up and the last response is the one
\* of the delete request. It is a reachable state of Spec (FairInitReached).
FairInit ==
    /\ active_downloads = <<>>
    /\ download_lock = Unlocked
    /\ fs = <<>>
    /\ downloads_dir_abs \in BOOLEAN
    /\ clock = 2
    /\ next_id = 2
    /\ pc = [t \in Threads |-> "idle"]
    /\ frame = [t \in Threads |-> IdleFrame]
    /\ resp = [handler |-> "delete_download", download_id |-> 1,
               body |-> [code |-> 200, success |-> TRUE,
                         message |-> "Download deleted"]]
    /\ deleted = {1}
    /\ was_downloading = {1}
    /\ tree = <<>>
    /\ hour = Now0
    /\ sweeper = SweeperStart

\* The behaviours of Spec from FairInit on in which every request thread
\* that is inside a handler is scheduled again, the engine call returns, and
\* download_lock is granted once it stays free (every `with` block ends).
FairSpec == FairInit /\ [][Next]_vars /\ \A t \in Threads : WF_vars(Step(t))

(* ----------------------------------------------------------------- claims *)

\* The record of a present id.
Rec(id) == active_downloads[id]

\* Records whose status is 'queued' or 'downloading'.
ActiveIds ==
    {id \in DOMAIN active_downloads :
        Rec(id).status = "queued" \/ Rec(id).status = "downloading"}

\* C1: in every reachable state the number of records that are 'queued' or
\* 'downloading' is at most MAX_CONCURRENT_DOWNLOADS.
C1_ActiveWithinCap == Cardinality(ActiveIds) <= MAX_CONCURRENT_DOWNLOADS

\* C2: once the status of a record is 'completed', 'failed' or 'cancelled',
\* no step changes it to a different value.
C2_TerminalStatesAreFinal ==
    [][\A id \in DOMAIN active_downloads :
          (Rec(id).status \in TerminalStates /\ id \in DOMAIN active_downloads')
             => active_downloads'[id].status = Rec(id).status]_vars

\* C3: when the write of a cancel request takes effect on a record whose
\* status is 'completed', 'failed' or 'cancelled', the request fails with
\* 400 and the record is left unchanged.
C3_CancelOfTerminalRejected ==
    [][\A t \in Threads :
          (/\ cancel_download_set_status(t)
           /\ Present(frame[t].download_id)
           /\ Rec(frame[t].download_id).status \in TerminalStates)
             => (/\ resp'.body.code = 400
                 /\ active_downloads' = active_downloads)]_vars

\* C4: a submission that finds exactly MAX_CONCURRENT_DOWNLOADS records
\* 'queued' or 'downloading' is answered 429 with the cap in the message,
\* creates no record and starts no engine call; one that finds fewer goes on
\* to store exactly one new record, in state 'queued', leaving the other
\* records as they are.
C4_AdmissionDecision ==
    [][\A t \in Threads :
          /\ \A data \in Requests :
                (data.has_url /\ start_download_validate(t, data)) =>
                   /\ Cardinality(ActiveIds) = MAX_CONCURRENT_DOWNLOADS =>
                         /\ resp'.body.code = 429
                         /\ resp'.body.cap = MAX_CONCURRENT_DOWNLOADS
                         /\ pc'[t] = "idle"
                         /\ active_downloads' = active_downloads
                         /\ fs' = fs
                   /\ Cardinality(ActiveIds) < MAX_CONCURRENT_DOWNLOADS =>
                         /\ pc'[t] = "start_download:247"
                         /\ ~Present(frame'[t].download_id)
          /\ start_download_store(t) =>
                /\ ~Present(frame[t].download_id)
                /\ DOMAIN active_downloads' =
                      DOMAIN active_downloads \cup {frame[t].download_id}
                /\ active_downloads'[frame[t].download_id].status = "queued"
                /\ \A id \in DOMAIN active_downloads :
                      active_downloads'[id] = Rec(id)]_vars

\* C4 witness: a submission has just been rejected with 429 while the cap
\* is taken by a job that was admitted after an earlier job completed.
C4_Witness ==
    /\ resp.handler = "start_download"
    /\ resp.body.code = 429
    /\ \E a \in DOMAIN active_downloads, d \in ActiveIds :
          /\ Rec(a).status = "completed"
          /\ Rec(d).created_at >= Rec(a).completed_at

\* C5: a record's 'files' list is non-empty if and only if its status is
\* 'completed'; stated for the states in which no thread is inside a
\* `with download_lock:` block, where it has to hold all the more.
C5_FilesIffCompleted ==
    download_lock = Unlocked =>
        \A id \in DOMAIN active_downloads :
            (Rec(id).files # <<>>) <=> (Rec(id).status = "completed")

\* The state FairSpec starts in is reached by Spec.
FairInitReached == FairInit

\* C6: every record that is 'downloading' is later in a terminal state or
\* deleted, when the threads inside handlers keep being scheduled.
C6_DownloadingEnds ==
    \A id \in JobIds :
        (Present(id) /\ Rec(id).status = "downloading")
           ~> (~Present(id) \/ Rec(id).status \in TerminalStates)

\* C6 witness: a record that was 'downloading' has been taken to 'failed'
\* by the except branch of the executor.
C6_Witness ==
    \E id \in DOMAIN active_downloads :
        /\ id \in was_downloading
        /\ Rec(id).status = "failed"
        /\ "error" \in DOMAIN Rec(id)
        /\ Rec(id).error = "FileNotFoundError"

\* No cancel or delete request has touched or is touching the record of id.
Undisturbed(id) ==
    /\ "cancelled_at" \notin DOMAIN Rec(id)
    /\ \A u \in Threads :
          frame[u].download_id = id =>
             pc[u] \notin {"cancel_download:355", "cancel_download:359",
                           "cancel_download:361", "delete_download:377",
                           "delete_download:383"}

\* The names of the files in the directory the engine wrote into for id.
EngineWrote(id) ==
    IF OutputDir(downloads_dir_abs, id) \in DOMAIN fs
    THEN ListFiles(fs[OutputDir(downloads_dir_abs, id)])
    ELSE <<>>

\* C7: when the engine has reported success and no cancel or delete
\* intervened, the executor leaves the record 'completed' with completed_at
\* set and 'files' equal to the names of the files the engine wrote.
C7_SuccessCompletes ==
    \A t \in Threads :
        (/\ pc[t] = "start_download:260"
         /\ frame[t].success
         /\ Present(frame[t].download_id)
         /\ Undisturbed(frame[t].download_id))
           => (/\ Rec(frame[t].download_id).status = "completed"
               /\ "completed_at" \in DOMAIN Rec(frame[t].download_id)
               /\ Rec(frame[t].download_id).files =
                     EngineWrote(frame[t].download_id))

\* A record as the failure paths of the executor have to leave it.
FailedWithError(r) ==
    /\ r.status = "failed"
    /\ "error" \in DOMAIN r
    /\ r.error # ""
    /\ r.files = <<>>

\* C8: when the engine returns False, or an exception is raised in the
\* executor, and the record exists, the executor writes 'failed' and a
\* non-empty error, 'files' stays empty, and the exception does not leave
\* download_worker.
C8_FailureRecorded ==
    [][\A t \in Threads :
          /\ (/\ download_worker_set_status(t)
              /\ ~frame[t].success
              /\ Present(frame[t].download_id))
                => /\ active_downloads'[frame[t].download_id].status = "failed"
                   /\ pc'[t] = "download_worker:128"
          /\ download_worker_set_error(t)
                => FailedWithError(active_downloads'[frame[t].download_id])
          /\ (download_worker_except_status(t)
              /\ Present(frame[t].download_id))
                => /\ active_downloads'[frame[t].download_id].status = "failed"
                   /\ pc'[t] = "download_worker:134"
          /\ download_worker_except_error(t)
                => /\ FailedWithError(active_downloads'[frame[t].download_id])
                   /\ pc'[t] = "start_download:260"]_vars

\* C8 witness: an exception raised in the executor has been captured in the
\* record, and download_worker has returned to start_download.
C8_Witness ==
    \E t \in Threads :
        /\ pc[t] = "start_download:260"
        /\ frame[t].e # ""
        /\ Present(frame[t].download_id)
        /\ Rec(frame[t].download_id).status = "failed"
        /\ Rec(frame[t].download_id).error = frame[t].e

\* C9: every record that is 'completed' or 'failed' has been 'downloading'
\* and has started_at set, and no step takes a record from 'queued' to
\* 'completed' or 'failed'.
C9_NoSkipOfDownloading ==
    /\ [](\A id \in DOMAIN active_downloads :
             Rec(id).status \in {"completed", "failed"} =>
                /\ id \in was_downloading
                /\ "started_at" \in DOMAIN Rec(id))
    /\ [][\A id \in DOMAIN active_downloads :
             (Rec(id).status = "queued" /\ id \in DOMAIN active_downloads')
                => active_downloads'[id].status \notin {"completed", "failed"}]_vars

\* C9 witness: a record is 'completed' after having been 'downloading'.
C9_Witness ==
    \E id \in DOMAIN active_downloads :
        /\ Rec(id).status = "completed"
        /\ id \in was_downloading
        /\ "started_at" \in DOMAIN Rec(id)

\* C10: after a delete request for an id has returned success, the registry
\* has no entry for the id and no directory of the id exists on disk:
\* neither DOWNLOADS_DIR/<id> nor the directory the engine writes into.
C10_DeletedLeavesNothing ==
    \A id \in deleted :
        /\ ~Present(id)
        /\ AppDir(id) \notin DOMAIN fs
        /\ OutputDir(downloads_dir_abs, id) \notin DOMAIN fs

\* jsonify({'error': 'Download ID not found'}), 404
NotFound == ErrorResponse(404, "Download ID not found")

\* C11: a status query, a cancel, a delete or a file retrieval for an id
\* that is not in the registry returns 404 'Download ID not found' at once
\* and leaves the registry and the files on disk as they are.
C11_UnknownIdNotFound ==
    [][\A t \in Threads, id \in JobIds :
          (/\ ~Present(id)
           /\ \/ get_download_status_check(t, id)
              \/ cancel_download_check(t, id)
              \/ delete_download_check(t, id)
              \/ download_file_check(t, id))
             => (/\ resp'.body = NotFound
                 /\ resp'.download_id = id
                 /\ pc'[t] = "idle"
                 /\ active_downloads' = active_downloads
                 /\ fs' = fs)]_vars

\* C11 witness: a file retrieval for an id that was deleted has been
\* answered 404 while another record is in the registry.
C11_Witness ==
    /\ resp.handler = "download_file"
    /\ resp.body = NotFound
    /\ resp.download_id \in deleted
    /\ active_downloads # <<>>

\* C12: a cancel or a delete request never ends in an internal error (500):
\* it returns success, 404 or 400, also when another delete removes the
\* record between its existence check and its write.
C12_CancelDeleteTypedResult ==
    resp.handler \in {"cancel_download", "delete_download"}
        => resp.body.code \in {200, 400, 404}

\* A record whose fields that are written together are all there.
Whole(r) ==
    /\ r.status = "downloading" => "started_at" \in DOMAIN r
    /\ r.status = "completed" =>
          "completed_at" \in DOMAIN r /\ r.files # <<>>
    /\ r.status = "cancelled" => "cancelled_at" \in DOMAIN r

\* C13: the record a status query returns is never torn: 'downloading'
\* comes with started_at, 'completed' with completed_at and its files,
\* 'cancelled' with cancelled_at.
C13_NoTornRead ==
    (resp.handler = "get_download_status" /\ resp.body.code = 200)
        => Whole(resp.body.download)

\* C14: every record in the response of a listing with a status filter has
\* the status the filter names, and 'total' is the number of records
\* returned.
C14_ListingMatchesFilter ==
    [][\A t \in Threads :
          list_downloads_respond(t) =>
             /\ resp'.body.total = Len(resp'.body.downloads)
             /\ Truthy(frame[t].status_filter) =>
                   \A i \in DOMAIN resp'.body.downloads :
                       resp'.body.downloads[i].info.status
                          = frame[t].status_filter]_vars

\* C15: a listing with limit L selects at most L records, for every L
\* given, L = 0 included.
C15_ListingWithinLimit ==
    [][\A t \in Threads, args \in ListArgs :
          (list_downloads_select(t, args) /\ args.has_limit)
             => Len(frame'[t].sorted_downloads) <= args.limit]_vars

\* C16: a record has an 'error' field only if its status is 'failed'.
C16_ErrorOnlyWhenFailed ==
    \A id \in DOMAIN active_downloads :
        "error" \in DOMAIN Rec(id) => Rec(id).status = "failed"

\* C17: no step writes started_at, completed_at or cancelled_at into a
\* record that already has it, and every timestamp of a record is at or
\* after its created_at.
C17_TimestampsWrittenOnce ==
    /\ [](\A id \in DOMAIN active_downloads :
             \A k \in {"started_at", "completed_at", "cancelled_at"} :
                 k \in DOMAIN Rec(id) => Rec(id)[k] >= Rec(id).created_at)
    /\ [][\A t \in Threads :
             /\ download_worker_set_started_at(t) =>
                   "started_at" \notin DOMAIN Rec(frame[t].download_id)
             /\ download_worker_set_completed_at(t) =>
                   "completed_at" \notin DOMAIN Rec(frame[t].download_id)
             /\ cancel_download_set_cancelled_at(t) =>
                   "cancelled_at" \notin DOMAIN Rec(frame[t].download_id)]_vars

\* The threads whose engine call (download_video or download_playlist,
\* lines 105-115) has started and not returned.
EngineCalls == {t \in Threads : pc[t] = "download_worker:105"}

\* C18: at most MAX_CONCURRENT_DOWNLOADS engine calls are in progress.
C18_EngineCallsWithinCap ==
    Cardinality(EngineCalls) <= MAX_CONCURRENT_DOWNLOADS

\* The files of tree tr that a cycle starting at hour h has to delete: those
\* whose modification time is more than CLEANUP_INTERVAL_HOURS before h.
Expired(tr, h) ==
    {p \in DOMAIN tr :
        tr[p].is_file /\ tr[p].mtime < h - CLEANUP_INTERVAL_HOURS}

\* The paths of the cycle in progress that the walk has passed.
Visited ==
    {p \in DOMAIN sweeper.start :
        \A i \in DOMAIN sweeper.todo : sweeper.todo[i] # p}

\* C19: a cleanup cycle that ends without a failed filesystem call has
\* deleted exactly the files whose modification time is more than
\* CLEANUP_INTERVAL_HOURS in the past, and has kept every other file
\* (a file exactly CLEANUP_INTERVAL_HOURS old included) and every directory.
C19_CycleDeletesExpiredFiles ==
    (sweeper.pc = "cleanup:82" /\ sweeper.unlink_failed = {})
        => /\ DOMAIN tree =
                 DOMAIN sweeper.start \ Expired(sweeper.start, hour)
           /\ \A p \in DOMAIN tree : tree[p] = sweeper.start[p]

\* C19 witness: a cycle has ended that deleted a file 25 hours old and kept
\* a file exactly 24 hours old, a file one hour old and a directory.
C19_Witness ==
    /\ sweeper.pc = "cleanup:82"
    /\ sweeper.unlink_failed = {}
    /\ sweeper.cycle = 1
    /\ \E p \in DOMAIN sweeper.start :
          /\ sweeper.start[p].is_file
          /\ sweeper.start[p].mtime = hour - CLEANUP_INTERVAL_HOURS - 1
          /\ p \notin DOMAIN tree
    /\ \E p \in DOMAIN tree :
          tree[p].is_file /\ tree[p].mtime = hour - CLEANUP_INTERVAL_HOURS
    /\ \E p \in DOMAIN tree : tree[p].is_file /\ tree[p].mtime = hour - 1
    /\ \E p \in DOMAIN tree : ~tree[p].is_file

\* C20: an unlink that raises does not end the cycle: the walk goes on with
\* the next path, and every expired file that the walk has passed and whose
\* unlink did not raise is deleted.
C20_UnlinkFailureDoesNotAbort ==
    /\ [](sweeper.pc \in {"cleanup:72", "cleanup:82", "cleanup:85"} =>
             \A p \in Expired(sweeper.start, hour) \cap Visited :
                 p \notin sweeper.unlink_failed => p \notin DOMAIN tree)
    /\ [][(/\ cleanup_visit("unlink_error")
           /\ sweeper'.unlink_failed # sweeper.unlink_failed)
             => (/\ sweeper'.pc = "cleanup:72"
                 /\ sweeper'.todo = Tail(sweeper.todo)
                 /\ ~sweeper'.aborted)]_vars

\* C20 witness: the cycle has ended at line 82 after the unlink of
\* 1/download.log raised, and 1/video.mp4 and 2/video.mp4, visited after
\* it, are deleted.
C20_Witness ==
    /\ sweeper.pc = "cleanup:82"
    /\ sweeper.unlink_failed = {"1/download.log"}
    /\ "1/download.log" \in DOMAIN tree
    /\ {"1/video.mp4", "2/video.mp4"} \subseteq Expired(sweeper.start, hour)
    /\ "1/video.mp4" \notin DOMAIN tree
    /\ "2/video.mp4" \notin DOMAIN tree

\* The states of the request handlers from which SweepSpec starts are
\* reached by Spec.
ExecutorInLockReached == ExecutorApp(FALSE)

ExecutorInEngineReached == ExecutorApp(TRUE)

\* C21: every step of the cleanup thread leaves active_downloads and
\* download_lock as they are and can be taken whoever holds download_lock;
\* it deletes only files older than cleanup_time, and it deletes such a
\* file, when unlink does not raise, whatever the status of the download
\* the file belongs to.
C21_SweeperIgnoresRegistry ==
    /\ [](sweeper.pc = "cleanup:68" => ENABLED cleanup_start)
    /\ []((sweeper.pc = "cleanup:72" /\ sweeper.todo # <<>>)
             => ENABLED cleanup_visit("ok"))
    /\ [][SweepNext =>
             /\ active_downloads' = active_downloads
             /\ download_lock' = download_lock
             /\ \A p \in DOMAIN tree \ DOMAIN tree' :
                   tree[p].is_file /\ tree[p].mtime < sweeper.cleanup_time
             /\ (/\ cleanup_visit("ok")
                 /\ tree[Head(sweeper.todo)].is_file
                 /\ tree[Head(sweeper.todo)].mtime < sweeper.cleanup_time)
                   => Head(sweeper.todo) \notin DOMAIN tree']_vars

\* C21 witness: the cleanup thread has deleted video.mp4 of the download
\* whose engine call is in progress and whose record is 'downloading'.
C21_Witness ==
    /\ pc[1] = "download_worker:105"
    /\ Rec(1).status = "downloading"
    /\ "1/video.mp4" \in DOMAIN sweeper.start
    /\ "1/video.mp4" \notin DOMAIN tree

\* C22: the cleanup thread never stops: every cycle ends, at line 82 or
\* with an exception at line 85, and after each end the next cycle starts,
\* one sleep period later.
C22_SweeperKeepsCycling ==
    \A n \in 1 .. MaxCycles - 1 :
        /\ (sweeper.cycle = n /\ sweeper.pc = "cleanup:72")
              ~> (sweeper.cycle = n
                    /\ sweeper.pc \in {"cleanup:82", "cleanup:85"})
        /\ (sweeper.cycle = n /\ sweeper.pc \in {"cleanup:82", "cleanup:85"})
              ~> (/\ sweeper.cycle = n + 1
                  /\ sweeper.pc = "cleanup:72"
                  /\ hour = Now0 + n * SleepHours)

\* C22 witness: the second cycle starts, one sleep period after the first
\* ended with an exception of stat.
C22_Witness ==
    /\ sweeper.cycle = 2
    /\ sweeper.pc = "cleanup:68"
    /\ sweeper.aborted
    /\ sweeper.unlink_failed = {}
    /\ hour = Now0 + SleepHours

\* The names of FilterNames that end in '.mp4' when case is ignored.
EndsInMp4 == {"video.mp4", "CLIP.MP4", "Movie.Mp4"}

\* C23: when start_download builds its response for a completed job, the
\* record is left as it was, a non-empty selection is returned in a success
\* response, and the 'files' of a success response are exactly the names of
\* the record's 'files' that end in '.mp4' (case ignored), in their order;
\* ["video.mp4", "video.info.json"] yields ["video.mp4"].
C23_FilterSelectsMp4 ==
    [][\A t \in Threads :
          (/\ pc[t] = "start_download:260"
           /\ pc'[t] = "idle"
           /\ Present(frame[t].download_id)
           /\ Rec(frame[t].download_id).status = "completed")
          => LET files == Rec(frame[t].download_id).files
                 expected == SelectSeq(files, LAMBDA f : f \in EndsInMp4)
             IN  /\ active_downloads' = active_downloads
                 /\ expected # <<>> => resp'.body.code = 200
                 /\ resp'.body.code = 200 => resp'.body.files = expected
                 /\ files = <<"video.mp4", "video.info.json">>
                      => resp'.body.files = <<"video.mp4">>]_vars

\* C23 witness: a listing with upper-case and lower-case '.mp4' names around
\* another file was filtered.
C23_Witness ==
    /\ resp.handler = "start_download"
    /\ resp.body.code = 200
    /\ resp.body.files = <<"CLIP.MP4", "video.mp4">>
    /\ Present(1)
    /\ Rec(1).files = <<"CLIP.MP4", "video.info.json", "video.mp4">>
\* C24: a response of start_download to an admitted submission whose record
\* is in the registry carries the id; it is the success response with the
\* filtered files when the record's status is 'completed', and otherwise
\* the failure response with the record's status and error.
C24_ResponseReportsRecord ==
    (/\ resp.handler = "start_download"
     /\ resp.download_id # NoId
     /\ Present(resp.download_id))
    => LET download_info == Rec(resp.download_id) IN
       /\ "download_id" \in DOMAIN resp.body
       /\ resp.body.download_id = resp.download_id
       /\ IF download_info.status = "completed"
          THEN /\ resp.body.code = 200
               /\ resp.body.success
               /\ resp.body.files = Mp4Files(download_info.files)
          ELSE /\ resp.body.code = 500
               /\ ~resp.body.success
               /\ resp.body.status = download_info.status
               /\ resp.body.error = ErrorOf(download_info)
\* The positions of a thread inside download_worker, inside cancel_download
\* after its first check, and inside download_file after its first check.
WorkerPcs ==
    {"download_worker:94", "download_worker:96", "download_worker:99",
     "download_worker:105", "download_worker:117", "download_worker:120",
     "download_worker:123", "download_worker:128", "download_worker:132",
     "download_worker:134"}

CancelPcs == {"cancel_download:355", "cancel_download:359",
              "cancel_download:361"}

DownloadFilePcs == {"download_file:329", "download_file:333"}

\* Thread t takes a step from one of the positions `pcs`.
StepsFrom(t, pcs) == pc[t] \in pcs /\ pc'[t] # pc[t]

\* Every record but that of id is in the registry as it was.
OthersUnchanged(id) ==
    \A j \in DOMAIN active_downloads \ {id} :
        j \in DOMAIN active_downloads'
        /\ active_downloads'[j] = active_downloads[j]

\* C25: no step changes the url, options or created_at of a record; a step
\* of cancel_download leaves the files on disk, the set of records, every
\* other record and every field of the addressed record but 'status' and
\* 'cancelled_at' as they were; a step of download_worker leaves the set of
\* records and every other record as they were.
C25_FrameOfCancelAndExecutor ==
    [][/\ \A id \in DOMAIN active_downloads \cap DOMAIN active_downloads' :
             /\ active_downloads'[id].url = active_downloads[id].url
             /\ active_downloads'[id].options = active_downloads[id].options
             /\ active_downloads'[id].created_at
                   = active_downloads[id].created_at
       /\ \A t \in Threads :
             /\ (pc[t] = "idle" /\ pc'[t] = "cancel_download:355")
                  => active_downloads' = active_downloads /\ fs' = fs
             /\ StepsFrom(t, CancelPcs)
                  => LET id == frame[t].download_id IN
                     /\ fs' = fs
                     /\ DOMAIN active_downloads' = DOMAIN active_downloads
                     /\ OthersUnchanged(id)
                     /\ Present(id)
                          => /\ DOMAIN active_downloads'[id]
                                  \subseteq DOMAIN Rec(id) \cup {"cancelled_at"}
                             /\ \A k \in DOMAIN Rec(id)
                                          \ {"status", "cancelled_at"} :
                                   active_downloads'[id][k] = Rec(id)[k]
             /\ StepsFrom(t, WorkerPcs)
                  => /\ DOMAIN active_downloads' = DOMAIN active_downloads
                     /\ OthersUnchanged(frame[t].download_id)]_vars

\* C25 witness: a cancel request has succeeded on one of two records, with
\* job directories on disk.
C25_Witness ==
    /\ resp.handler = "cancel_download"
    /\ resp.body.code = 200
    /\ Present(resp.download_id)
    /\ Rec(resp.download_id).status = "cancelled"
    /\ "cancelled_at" \in DOMAIN Rec(resp.download_id)
    /\ Rec(resp.download_id).url = "https://host/v"
    /\ \E other \in DOMAIN active_downloads : other # resp.download_id
    /\ fs # <<>>

AcquirePcs ==
    {"start_download:247", "download_worker:94", "download_worker:117",
     "download_worker:132", "cancel_download:359", "delete_download:383"}

InsidePcs ==
    {"download_worker:96", "download_worker:120", "download_worker:123",
     "download_worker:128", "download_worker:134", "cancel_download:361"}

\* C28: the thread holding download_lock is inside a `with` block, not at
\* the entry of one, and can take its next step; a step that changes the
\* registry is the step of one thread from a statement of a `with` block,
\* taken while no other thread holds the lock; a holder that keeps the lock
\* over a step releases it with its next step, also when the statement
\* raises.
C28_LockDiscipline ==
    /\ [](download_lock # Unlocked
           => /\ pc[download_lock] \in InsidePcs
              /\ pc[download_lock] \notin AcquirePcs
              /\ ENABLED Step(download_lock))
    /\ [][/\ active_downloads' # active_downloads
             => \E t \in Threads :
                   /\ StepsFrom(t, AcquirePcs \cup InsidePcs)
                   /\ download_lock \in {Unlocked, t}
                   /\ pc[t] \in InsidePcs => download_lock = t
                   /\ download_lock' \in {Unlocked, t}
                   /\ \A u \in Threads \ {t} : pc'[u] = pc[u]
          /\ \A t \in Threads :
                (Holds(t) /\ pc'[t] # pc[t] /\ download_lock' # Unlocked)
                => /\ download_lock' = t
                   /\ pc[t] = "download_worker:120"
                   /\ pc'[t] = "download_worker:123"]_vars

\* C28 witness: iterdir raised inside the `with` block of line 117, the
\* lock is free again, and another thread is about to take it.
C28_Witness ==
    \E t, u \in Threads :
        /\ t # u
        /\ pc[t] = "download_worker:132"
        /\ frame[t].e = "FileNotFoundError"
        /\ download_lock = Unlocked
        /\ pc[u] \in AcquirePcs

\* C29: an id whose record delete_download has removed is not a key of the
\* registry after any step, and a step of the executor or of the response
\* of start_download for an id that has no record leaves the registry as
\* it was.
C29_DeletedIdStaysDeleted ==
    [][/\ \A id \in deleted \cup deleted' :
             id \notin DOMAIN active_downloads'
       /\ \A t \in Threads :
             (/\ StepsFrom(t, WorkerPcs \cup {"start_download:260"})
              /\ ~Present(frame[t].download_id))
             => active_downloads' = active_downloads]_vars

\* C29 witness: the executor of a deleted job failed with KeyError while
\* the record of another job is in the registry.
C29_Witness ==
    /\ resp.handler = "start_download"
    /\ resp.body.code = 500
    /\ resp.body.error = "KeyError"
    /\ resp.download_id \in deleted
    /\ ~Present(resp.download_id)
    /\ active_downloads # <<>>

\* C30: download_file goes on to send a file only from a read of the record
\* that found it present with status 'completed', and sends a file only
\* from there; a read that finds another status returns 400 'Download not
\* completed'; no step of download_file changes the registry.
C30_FileServedOnlyWhenCompleted ==
    [][/\ \A t \in Threads :
             /\ (pc'[t] = "download_file:333" /\ pc[t] # pc'[t])
                  => /\ pc[t] = "download_file:329"
                     /\ Present(frame[t].download_id)
                     /\ Rec(frame[t].download_id).status = "completed"
             /\ (/\ StepsFrom(t, {"download_file:329"})
                 /\ Present(frame[t].download_id)
                 /\ Rec(frame[t].download_id).status # "completed")
                  => /\ resp'.handler = "download_file"
                     /\ resp'.body = ErrorResponse(400,
                                                   "Download not completed")
             /\ StepsFrom(t, DownloadFilePcs)
                  => active_downloads' = active_downloads
       /\ resp'.handler = "download_file"
             => /\ active_downloads' = active_downloads
                /\ resp'.body.code = 200
                     => \E t \in Threads :
                           StepsFrom(t, {"download_file:333"})]_vars

\* C30 witness: a file of a completed job has been sent.
C30_Witness ==
    /\ resp.handler = "download_file"
    /\ resp.body.code = 200
    /\ Present(resp.download_id)
    /\ Rec(resp.download_id).status = "completed"
    /\ resp.body.attachment = "video.mp4"
\* C31: a submission whose body has no 'url' is answered 400 'URL is
\* required' whether or not the cap of active downloads is reached; the
\* step draws no id, leaves the registry and the files as they were, and
\* leaves every thread outside download_worker that was outside it.
C31_MissingUrlRejectedFirst ==
    [][\A t \in Threads : \A data \in Requests :
          (~data.has_url /\ start_download_validate(t, data))
          => /\ resp'.handler = "start_download"
             /\ resp'.body = ErrorResponse(400, "URL is required")
             /\ resp'.download_id = NoId
             /\ pc'[t] = "idle"
             /\ \A u \in Threads \ {t} : pc'[u] = pc[u]
             /\ active_downloads' = active_downloads
             /\ next_id' = next_id
             /\ fs' = fs]_vars

\* C31 witness: a submission without 'url' has been rejected with 400
\* while the cap is taken by an active job.
C31_Witness ==
    /\ resp.handler = "start_download"
    /\ resp.body.code = 400
    /\ resp.body.error = "URL is required"
    /\ ActiveCount >= MAX_CONCURRENT_DOWNLOADS
====
